---- MODULE Spec2Model ----
(***************************************************************************)
(* Lowering of the fiddle AST to LLVM IR, src/codegen.cpp.                 *)
(*                                                                         *)
(* Module::codegen is modelled as a state machine: one step per prototype  *)
(* declared, three steps per FuncDef::codegen (bind the arguments, lower   *)
(* the body, unwind and verify) and one step for verifyModule.  The        *)
(* expression lowering (the virtual Expr::codegen) is a recursive          *)
(* operator over the AST that returns the llvm::Value* and the             *)
(* instructions appended to the current basic block.                       *)
(*                                                                         *)
(* Process termination by std::abort, by a failed assert or by a fault is  *)
(* the state "Failed"; `error` tells which.  An operation whose behaviour  *)
(* the C++ standard or the LLVM API leaves undefined (a null operand       *)
(* handed to IRBuilder, argNames[i] past the end, pop_back on an empty     *)
(* vector, operands of mismatched types) is a choice between the two       *)
(* outcomes a build produces: it traps (assertions enabled, fault), or it  *)
(* goes on silently.  The two asserts on the verifier's result are taken   *)
(* as compiled in: the verifier runs and a broken function or module ends  *)
(* the process.                                                            *)
(***************************************************************************)
EXTENDS Integers, Sequences, FiniteSets, TLC

\* The longest module (number of FuncDefs) that is lowered.
MaxFuncs == 2

----------------------------------------------------------------------------
(* AST (ast.h, as used by codegen.cpp)                                     *)

IntExpr(v) == [node |-> "Int", val |-> v]
VarExpr(n) == [node |-> "Var", name |-> n]
BinOpExpr(op, l, r) == [node |-> "BinOp", name |-> op, lhs |-> l, rhs |-> r]
CallExpr(f, args) == [node |-> "Call", functionExpr |-> f, argumentExprs |-> args]
BlockExpr(es) == [node |-> "Block", exprs |-> es]

TypeName(n) == [kind |-> "TypeName", name |-> n]
UnitType == [kind |-> "UnitType"]

FuncProto(n, names, types, ret) ==
  [name |-> n, argNames |-> names, argTypes |-> types, returnType |-> ret]
FuncDef(p, b) == [proto |-> p, body |-> b]

\* Every identifier of the inputs.  "f" and "g" name functions; "x" names
\* no function, so it is bound only where it is a parameter.
Names == {"f", "g", "x"}

\* The prototypes of the inputs.  argNames and argTypes have equal length.
Protos ==
  { FuncProto("f", <<>>, <<>>, TypeName("i32")),
    FuncProto("f", <<"x">>, <<TypeName("i32")>>, TypeName("i32")),
    FuncProto("f", <<"f", "f">>, <<TypeName("i64"), UnitType>>, TypeName("i32")),
    FuncProto("g", <<>>, <<>>, TypeName("i32")),
    FuncProto("g", <<"x">>, <<TypeName("f32")>>, TypeName("i32")) }

\* The bodies of the inputs: every Expr variant, at the root and nested,
\* with bound and unbound names and supported and unsupported operators.
Bodies ==
  { IntExpr(-1),
    CallExpr(VarExpr("g"), <<>>),
    CallExpr(VarExpr("f"), <<VarExpr("x")>>),
    BlockExpr(<<>>),
    BlockExpr(<<VarExpr("x"), BinOpExpr("+", IntExpr(1), IntExpr(1))>>),
    BlockExpr(<<BinOpExpr("%", VarExpr("x"), VarExpr("x")),
                BinOpExpr("/", VarExpr("x"), IntExpr(1))>>) }

FuncDefs == { FuncDef(p, b) : p \in Protos, b \in Bodies }

RECURSIVE SeqsUpTo(_, _)
SeqsUpTo(S, n) ==
  IF n = 0 THEN { <<>> }
  ELSE LET shorter == SeqsUpTo(S, n - 1)
       IN shorter \cup { Append(s, e) : s \in { t \in shorter : Len(t) = n - 1 }, e \in S }

\* Module::functions of the inputs.
Modules == SeqsUpTo(FuncDefs, MaxFuncs)

----------------------------------------------------------------------------
(* Types                                                                   *)

\* type::Int(bits, signed) and type::Unit, the semantic types of types.h.
TypeInt(bits, signed) == [type |-> "Int", bits |-> bits, signed |-> signed]
TypeUnit == [type |-> "Unit"]

\* The result of a call that ended the process instead of returning.
Aborted == [type |-> "aborted"]

\* LLVM types: iN, the type Unit lowers to, void, pointer-to-function, and
\* the type of a value built from operands that have none.
IntegerType(bits) == [ty |-> "int", bits |-> bits]
UnitLLVMType == [ty |-> "unit"]
VoidType == [ty |-> "void"]
BadType == [ty |-> "bad"]
FunctionType(ret, params) == [ty |-> "fn", ret |-> ret, params |-> params]

\* Type::llvmType of types.h.
llvmType(t) == IF t.type = "Int" THEN IntegerType(t.bits) ELSE UnitLLVMType

\* getType with a seeded defect: a name it does not know defaults to i32
\* instead of ending the process.
getTypeDefaulting(astType) ==
  IF astType.kind = "TypeName"
  THEN IF astType.name = "i8" THEN TypeInt(8, TRUE)
       ELSE IF astType.name = "i16" THEN TypeInt(16, TRUE)
       ELSE IF astType.name = "i64" THEN TypeInt(64, TRUE)
       ELSE TypeInt(32, TRUE)
  ELSE TypeUnit

\* getType: the four integer names and the unit type; every other name
\* prints "unknown type" and calls std::abort.
getType(astType) ==
  IF astType.kind = "TypeName"
  THEN IF astType.name = "i8" THEN TypeInt(8, TRUE)
       ELSE IF astType.name = "i16" THEN TypeInt(16, TRUE)
       ELSE IF astType.name = "i32" THEN TypeInt(32, TRUE)
       ELSE IF astType.name = "i64" THEN TypeInt(64, TRUE)
       ELSE Aborted
  ELSE IF astType.kind = "UnitType" THEN TypeUnit
  ELSE Aborted

----------------------------------------------------------------------------
(* llvm::Value                                                             *)

\* The width IntExpr::codegen gives its constant.
IntBits == 32

\* The width of the constant 0 an empty BlockExpr yields.
BlockDefaultBits == 32

\* The base of the 16-bit limbs in which the bits of an integer are kept,
\* least significant limb first.
LimbBase == 2 ^ 16

\* The conversion of the host integer v to uint64_t, APInt's parameter
\* type: the two's complement bits of v, sign extended to 64 bits.
ToUInt64(v) ==
  LET ext == IF v < 0 THEN LimbBase - 1 ELSE 0
  IN << v % LimbBase, (v \div LimbBase) % LimbBase, ext, ext >>

\* llvm::APInt(numBits, val): the low numBits bits of val.
APInt(numBits, val) == SubSeq(ToUInt64(val), 1, numBits \div 16)

\* nullptr
Null == [k |-> "null"]
\* llvm::ConstantInt::get(context, ap)
ConstantInt(bits, ap) == [k |-> "const", ty |-> IntegerType(bits), val |-> ap]
\* The llvm::Function with index id in the module: a constant of
\* pointer-to-function type.
FunctionValue(id, fty) == [k |-> "func", ty |-> fty, id |-> id]
\* The idx-th llvm::Argument of function fn.
Argument(fn, idx, ty) == [k |-> "arg", ty |-> ty, fn |-> fn, idx |-> idx]
\* The result of the idx-th instruction of block blk of function fn.
InstValue(fn, blk, idx, ty) ==
  [k |-> "inst", ty |-> ty, fn |-> fn, blk |-> blk, idx |-> idx]
\* The constant the builder's ConstantFolder returns for op(lhs, rhs) on two
\* constants: no instruction; its numeric value is left symbolic.
ConstantExpr(op, lhs, rhs) ==
  [k |-> "cexpr", ty |-> lhs.ty, op |-> op, lhs |-> lhs, rhs |-> rhs]

\* llvm::Constant: integers, functions and constant expressions.
IsConstant(v) == v.k \in {"const", "func", "cexpr"}

\* An instruction: opcode, operands and result type.
Instruction(op, operands, ty) == [op |-> op, operands |-> operands, ty |-> ty]

\* What an Expr::codegen call leaves behind: the value returned, the
\* instructions of the current block, and whether the process died in it.
Lowered(val, instrs) == [val |-> val, instrs |-> instrs, crashed |-> FALSE]
Crashed(instrs) == [val |-> Null, instrs |-> instrs, crashed |-> TRUE]

\* FuncContext, with the llvm::Function that owns currentBlock and the
\* outcome of undefined operations in this build.
FuncContext(imap, fn, blk, trap) ==
  [identifierMap |-> imap, fn |-> fn, currentBlock |-> blk, trap |-> trap]

----------------------------------------------------------------------------
(* llvm::IRBuilder                                                         *)

\* CreateAdd, CreateSub, CreateMul, CreateSDiv on non-null operands.  Two
\* constants are folded and no instruction is inserted; otherwise the
\* instruction is appended to the block.  Operands whose types differ or
\* are not integers break the precondition of the call.
CreateBinOp(op, left, right, context, instrs) ==
  LET misuse == left.ty # right.ty \/ left.ty.ty # "int"
  IN IF misuse /\ context.trap THEN Crashed(instrs)
     ELSE IF IsConstant(left) /\ IsConstant(right)
     THEN Lowered(ConstantExpr(op, left, right), instrs)
     ELSE Lowered(InstValue(context.fn, context.currentBlock, Len(instrs) + 1, left.ty),
                  Append(instrs, Instruction(op, <<left, right>>, left.ty)))

\* CreateCall(func, args, "call").  A null callee, a callee that is no
\* function, a null argument, or arguments that do not match the callee's
\* signature break the precondition of the call.
CreateCall(func, args, context, instrs) ==
  LET callable == func # Null /\ func.ty.ty = "fn"
      matches == /\ callable
                 /\ Len(args) = Len(func.ty.params)
                 /\ \A i \in 1..Len(args) :
                       args[i] # Null /\ args[i].ty = func.ty.params[i]
      retTy == IF callable THEN func.ty.ret ELSE BadType
  IN IF ~matches /\ context.trap THEN Crashed(instrs)
     ELSE Lowered(InstValue(context.fn, context.currentBlock, Len(instrs) + 1, retTy),
                  Append(instrs, Instruction("call", <<func>> \o args, retTy)))

\* CreateRet(result): `ret void` for a null result.
CreateRet(result) ==
  IF result = Null THEN Instruction("ret", <<>>, VoidType)
  ELSE Instruction("ret", <<result>>, VoidType)

----------------------------------------------------------------------------
(* Expr::codegen                                                           *)

RECURSIVE Codegen(_, _, _)
RECURSIVE CallExprArguments(_, _, _, _)
RECURSIVE BlockExprLoop(_, _, _, _)

\* IntExpr::codegen with a seeded defect: the constant takes all 64 bits of
\* the converted value.
IntExprCodegenWide(e, context, instrs) ==
  Lowered(ConstantInt(64, APInt(64, e.val)), instrs)

IntExprCodegen(e, context, instrs) ==
  Lowered(ConstantInt(IntBits, APInt(IntBits, e.val)), instrs)

VarExprCodegen(e, context, instrs) ==
  LET v == context.identifierMap[e.name]
  IN IF v = <<>> THEN Lowered(Null, instrs)
     ELSE Lowered(v[Len(v)], instrs)

BinOpExprCodegen(e, context, instrs) ==
  LET left == Codegen(e.lhs, context, instrs)
      right == IF left.crashed THEN left ELSE Codegen(e.rhs, context, left.instrs)
  IN IF right.crashed THEN Crashed(right.instrs)
     ELSE IF left.val = Null \/ right.val = Null THEN Lowered(Null, right.instrs)
     ELSE IF e.name = "+" THEN CreateBinOp("add", left.val, right.val, context, right.instrs)
     ELSE IF e.name = "-" THEN CreateBinOp("sub", left.val, right.val, context, right.instrs)
     ELSE IF e.name = "*" THEN CreateBinOp("mul", left.val, right.val, context, right.instrs)
     ELSE IF e.name = "/" THEN CreateBinOp("sdiv", left.val, right.val, context, right.instrs)
     ELSE Lowered(Null, right.instrs)

\* The loop of CallExpr::codegen: args.push_back(argExpr->codegen(context))
\* for the argument expressions from position i on.
CallExprArguments(argumentExprs, i, context, acc) ==
  IF i > Len(argumentExprs) \/ acc.crashed THEN acc
  ELSE LET r == Codegen(argumentExprs[i], context, acc.instrs)
       IN CallExprArguments(argumentExprs, i + 1, context,
            [args |-> Append(acc.args, r.val), instrs |-> r.instrs,
             crashed |-> r.crashed])

CallExprCodegen(e, context, instrs) ==
  LET func == Codegen(e.functionExpr, context, instrs)
      args == CallExprArguments(e.argumentExprs, 1, context,
                [args |-> <<>>, instrs |-> func.instrs, crashed |-> func.crashed])
  IN IF args.crashed THEN Crashed(args.instrs)
     ELSE CreateCall(func.val, args.args, context, args.instrs)

\* The loop of BlockExpr::codegen: val = expr->codegen(context) for the
\* expressions from position i on.
BlockExprLoop(exprs, i, context, acc) ==
  IF i > Len(exprs) \/ acc.crashed THEN acc
  ELSE BlockExprLoop(exprs, i + 1, context, Codegen(exprs[i], context, acc.instrs))

\* BlockExpr::codegen with a seeded defect: the loop returns at its first
\* expression.
BlockExprCodegenFirst(e, context, instrs) ==
  IF e.exprs = <<>>
  THEN Lowered(ConstantInt(BlockDefaultBits, APInt(BlockDefaultBits, 0)), instrs)
  ELSE Codegen(e.exprs[1], context, instrs)

BlockExprCodegen(e, context, instrs) ==
  BlockExprLoop(e.exprs, 1, context,
    Lowered(ConstantInt(BlockDefaultBits, APInt(BlockDefaultBits, 0)), instrs))

\* The virtual call expr->codegen(context).
Codegen(e, context, instrs) ==
  IF e.node = "Int" THEN IntExprCodegen(e, context, instrs)
  ELSE IF e.node = "Var" THEN VarExprCodegen(e, context, instrs)
  ELSE IF e.node = "BinOp" THEN BinOpExprCodegen(e, context, instrs)
  ELSE IF e.node = "Call" THEN CallExprCodegen(e, context, instrs)
  ELSE BlockExprCodegen(e, context, instrs)

----------------------------------------------------------------------------
(* llvm::verifyFunction, llvm::verifyModule                                *)

\* An operand is present, and an argument or an instruction result belongs
\* to the function that uses it and is defined before its use.
OperandOK(v, fn, blk, idx) ==
  /\ v # Null
  /\ v.k = "arg" => v.fn = fn
  /\ v.k = "inst" => v.fn = fn /\ v.blk = blk /\ v.idx < idx

InstructionOK(inst, fty, fn, blk, idx) ==
  /\ \A o \in 1..Len(inst.operands) : OperandOK(inst.operands[o], fn, blk, idx)
  /\ IF inst.op = "ret"
     THEN IF inst.operands = <<>> THEN fty.ret = VoidType
          ELSE inst.operands[1].ty = fty.ret
     ELSE IF inst.op = "call"
     THEN LET callee == inst.operands[1]
          IN /\ callee.ty.ty = "fn"
             /\ Len(inst.operands) - 1 = Len(callee.ty.params)
             /\ \A a \in 1..Len(callee.ty.params) :
                   inst.operands[a + 1].ty = callee.ty.params[a]
     ELSE /\ inst.operands[1].ty = inst.operands[2].ty
          /\ inst.operands[1].ty.ty = "int"

BlockOK(block, fty, fn, blk) ==
  /\ block # <<>>
  /\ \A idx \in 1..Len(block) :
       /\ (block[idx].op = "ret") = (idx = Len(block))
       /\ InstructionOK(block[idx], fty, fn, blk, idx)

\* TRUE when the function is broken, as llvm::verifyFunction returns it.
verifyFunction(llmodule_, fn) ==
  \E blk \in 1..Len(llmodule_[fn].blocks) :
     ~BlockOK(llmodule_[fn].blocks[blk], llmodule_[fn].ty, fn, blk)

\* TRUE when the module is broken.  A function without blocks is a
\* declaration, which is well formed.
verifyModule(llmodule_) ==
  \E fn \in 1..Len(llmodule_) : verifyFunction(llmodule_, fn)

----------------------------------------------------------------------------
(* Module::codegen                                                         *)

VARIABLES
  module,        \* this->functions, the input
  state,         \* where Module::codegen is
  error,         \* why the process ended, in state "Failed"
  cursor,        \* the position of `fn` in the running loop over functions
  step,          \* where FuncDef::codegen is: "entry", "body" or "exit"
  identifierMap, \* context.identifierMap: name -> stack of values
  functionMap,   \* functionMap: name -> index of its llvm::Function, 0 if none
  llmodule,      \* the llvm::Module: its functions, in creation order
  entryBlock,    \* the block FuncDef::codegen created
  result,        \* the value body->codegen returned
  scopeAtEntry   \* history: identifierMap when FuncDef::codegen was entered

vars == << module, state, error, cursor, step, identifierMap, functionMap,
           llmodule, entryBlock, result, scopeAtEntry >>

\* The name llvm::Function::Create gives: the requested one, with a numeric
\* suffix when the module already has functions of that name.
UniqueName(name, llmodule_) ==
  << name, Cardinality({ f \in 1..Len(llmodule_) : llmodule_[f].name[1] = name }) >>

\* codegenProto: the new llvm::Function, or Aborted when getType aborts.
codegenProto(proto, llmodule_) ==
  LET returnType == getType(proto.returnType)
      argTypes == [a \in 1..Len(proto.argTypes) |-> getType(proto.argTypes[a])]
  IN IF returnType = Aborted \/ \E a \in 1..Len(argTypes) : argTypes[a] = Aborted
     THEN Aborted
     ELSE [name |-> UniqueName(proto.name, llmodule_),
           ty |-> FunctionType(llvmType(returnType),
                               [a \in 1..Len(argTypes) |-> llvmType(argTypes[a])]),
           argNames |-> [a \in 1..Len(argTypes) |-> ""],
           blocks |-> <<>>]

\* The process ends: std::abort, a failed assert, or a fault.
Die(kind) ==
  /\ state' = "Failed"
  /\ error' = kind

Init ==
  /\ module \in Modules
  /\ state = "Unstarted"
  /\ error = "none"
  /\ cursor = 1
  /\ step = "entry"
  /\ identifierMap = [n \in Names |-> <<>>]
  /\ functionMap = [n \in Names |-> 0]
  /\ llmodule = <<>>
  /\ entryBlock = 0
  /\ result = Null
  /\ scopeAtEntry = [n \in Names |-> <<>>]

\* The llvm::Module, the ModuleContext and the functionMap are created.
ModuleCodegenBegin ==
  /\ state = "Unstarted"
  /\ state' = "Declaring"
  /\ UNCHANGED << module, error, cursor, step, identifierMap, functionMap,
                  llmodule, entryBlock, result, scopeAtEntry >>

\* One iteration of the first loop: the prototype of functions[cursor].
DeclareProto ==
  /\ state = "Declaring"
  /\ cursor <= Len(module)
  /\ LET proto == module[cursor].proto
         llfunc == codegenProto(proto, llmodule)
         id == Len(llmodule) + 1
     IN IF llfunc = Aborted
        THEN /\ Die("UnknownType")
             /\ UNCHANGED << cursor, identifierMap, functionMap, llmodule >>
        ELSE /\ llmodule' = Append(llmodule, llfunc)
             /\ identifierMap' =
                  [identifierMap EXCEPT ![proto.name] = Append(@, FunctionValue(id, llfunc.ty))]
             /\ functionMap' = [functionMap EXCEPT ![proto.name] = id]
             /\ cursor' = cursor + 1
             /\ UNCHANGED << state, error >>
  /\ UNCHANGED << module, step, entryBlock, result, scopeAtEntry >>

\* The first loop ends and the second begins.
BeginBodies ==
  /\ state = "Declaring"
  /\ cursor > Len(module)
  /\ state' = "LoweringBodies"
  /\ cursor' = 1
  /\ UNCHANGED << module, error, step, identifierMap, functionMap, llmodule,
                  entryBlock, result, scopeAtEntry >>

\* What the reads proto.argNames[0 .. nargs-1] can return: the name at that
\* position, or any name where the position is past the end of argNames.
ArgNameReads(argNames, nargs) ==
  { r \in [1..nargs -> Names] :
      \A a \in 1..nargs : a <= Len(argNames) => r[a] = argNames[a] }

\* The first loop of FuncDef::codegen from argument a on: push the a-th
\* argument of llfunc on the stack of the a-th name read.
RECURSIVE BindArguments(_, _, _, _, _)
BindArguments(imap, reads, a, llfunc, params) ==
  IF a > Len(reads) THEN imap
  ELSE BindArguments(
         [imap EXCEPT ![reads[a]] = Append(@, Argument(llfunc, a, params[a]))],
         reads, a + 1, llfunc, params)

\* FuncDef::codegen up to the creation of the entry block.
FuncDefEntry ==
  /\ state = "LoweringBodies"
  /\ step = "entry"
  /\ cursor <= Len(module)
  /\ LET proto == module[cursor].proto
         llfunc == functionMap[proto.name]
         params == llmodule[llfunc].ty.params
     IN \E reads \in ArgNameReads(proto.argNames, Len(params)), trap \in BOOLEAN :
          IF Len(params) > Len(proto.argNames) /\ trap
          THEN /\ Die("Crash")
               /\ UNCHANGED << step, identifierMap, llmodule, entryBlock, scopeAtEntry >>
          ELSE /\ identifierMap' = BindArguments(identifierMap, reads, 1, llfunc, params)
               /\ llmodule' = [llmodule EXCEPT ![llfunc].argNames = reads,
                                               ![llfunc].blocks = Append(@, <<>>)]
               /\ entryBlock' = Len(llmodule[llfunc].blocks) + 1
               /\ scopeAtEntry' = identifierMap
               /\ step' = "body"
               /\ UNCHANGED << state, error >>
  /\ UNCHANGED << module, cursor, functionMap, result >>

\* FuncContext funcContext{...}; result = body->codegen(&funcContext).
FuncDefBody ==
  /\ state = "LoweringBodies"
  /\ step = "body"
  /\ LET fn == module[cursor]
         llfunc == functionMap[fn.proto.name]
     IN \E trap \in BOOLEAN :
          LET r == Codegen(fn.body, FuncContext(identifierMap, llfunc, entryBlock, trap), <<>>)
          IN /\ llmodule' = [llmodule EXCEPT ![llfunc].blocks[entryBlock] = r.instrs]
             /\ IF r.crashed
                THEN /\ Die("Crash")
                     /\ UNCHANGED << step, result >>
                ELSE /\ result' = r.val
                     /\ step' = "exit"
                     /\ UNCHANGED << state, error >>
  /\ UNCHANGED << module, cursor, identifierMap, functionMap, entryBlock, scopeAtEntry >>

\* The second loop of FuncDef::codegen from name a on: pop_back on the stack
\* of each argument name.  ub: some stack was empty when it was popped;
\* where that does not trap, the name is left unbound.
RECURSIVE UnbindArguments(_, _, _)
UnbindArguments(acc, argNames, a) ==
  IF a > Len(argNames) THEN acc
  ELSE LET stack == acc.imap[argNames[a]]
       IN IF stack = <<>>
          THEN UnbindArguments([acc EXCEPT !.ub = TRUE], argNames, a + 1)
          ELSE UnbindArguments(
                 [acc EXCEPT !.imap[argNames[a]] = SubSeq(stack, 1, Len(stack) - 1)],
                 argNames, a + 1)

\* FuncDef::codegen from the unbinding on: pop the names, CreateRet,
\* assert(!verifyFunction).
FuncDefExit ==
  /\ state = "LoweringBodies"
  /\ step = "exit"
  /\ LET proto == module[cursor].proto
         llfunc == functionMap[proto.name]
         unbound == UnbindArguments([imap |-> identifierMap, ub |-> FALSE],
                                    proto.argNames, 1)
         emitted == [llmodule EXCEPT ![llfunc].blocks[entryBlock] =
                                       Append(@, CreateRet(result))]
     IN \E trap \in BOOLEAN :
          IF unbound.ub /\ trap
          THEN /\ Die("Crash")
               /\ UNCHANGED << cursor, step, identifierMap, llmodule >>
          ELSE /\ identifierMap' = unbound.imap
               /\ llmodule' = emitted
               /\ IF verifyFunction(emitted, llfunc)
                  THEN /\ Die("InternalVerificationFailure")
                       /\ UNCHANGED << cursor, step >>
                  ELSE /\ cursor' = cursor + 1
                       /\ step' = "entry"
                       /\ UNCHANGED << state, error >>
  /\ UNCHANGED << module, functionMap, entryBlock, result, scopeAtEntry >>

\* assert(!verifyModule(*llmodule)); return llmodule.
VerifyModule ==
  /\ state = "LoweringBodies"
  /\ step = "entry"
  /\ cursor > Len(module)
  /\ IF verifyModule(llmodule)
     THEN Die("InternalVerificationFailure")
     ELSE /\ state' = "Verified"
          /\ UNCHANGED error
  /\ UNCHANGED << module, cursor, step, identifierMap, functionMap, llmodule,
                  entryBlock, result, scopeAtEntry >>

Next ==
  \/ ModuleCodegenBegin
  \/ DeclareProto
  \/ BeginBodies
  \/ FuncDefEntry
  \/ FuncDefBody
  \/ FuncDefExit
  \/ VerifyModule

Spec == Init /\ [][Next]_vars

\* Module::codegen is a sequential program: it takes its next step.
FairSpec == Spec /\ WF_vars(Next)

----------------------------------------------------------------------------
(* Vocabulary of the properties                                            *)

\* Scope.lookup: the top of the stack of a name, Null when it is unbound.
Lookup(imap, n) == IF imap[n] = <<>> THEN Null ELSE imap[n][Len(imap[n])]

\* The direct sub-expressions of an expression, in lowering order.
Children(e) ==
  IF e.node = "BinOp" THEN << e.lhs, e.rhs >>
  ELSE IF e.node = "Call" THEN << e.functionExpr >> \o e.argumentExprs
  ELSE IF e.node = "Block" THEN e.exprs
  ELSE << >>

\* Every expression that occurs in e, e included.
RECURSIVE SubExprs(_)
SubExprs(e) ==
  {e} \cup UNION { SubExprs(Children(e)[c]) : c \in 1..Len(Children(e)) }

\* The names a module declares as functions.
FunctionNames(m) == { m[k].proto.name : k \in 1..Len(m) }

\* Function k of module m refers to a name that is neither a function of
\* the module nor one of its own parameters.
HasUnboundVarRef(m, k) ==
  \E e \in SubExprs(m[k].body) :
     /\ e.node = "Var"
     /\ e.name \notin FunctionNames(m)
     /\ \A a \in 1..Len(m[k].proto.argNames) : m[k].proto.argNames[a] # e.name

\* Function k of module m applies an operator other than + - * /.
HasUnsupportedOperator(m, k) ==
  \E e \in SubExprs(m[k].body) :
     e.node = "BinOp" /\ e.name \notin {"+", "-", "*", "/"}

\* Some prototype of module m names a type getType does not know.
HasUnknownType(m) ==
  \E k \in 1..Len(m) :
     \E t \in {m[k].proto.returnType}
              \cup { m[k].proto.argTypes[a] : a \in 1..Len(m[k].proto.argTypes) } :
        t.kind = "TypeName" /\ t.name \notin {"i8", "i16", "i32", "i64"}

\* Every instruction the module holds.
AllInstructions ==
  UNION { UNION { { llmodule[f].blocks[b][n] : n \in 1..Len(llmodule[f].blocks[b]) }
                  : b \in 1..Len(llmodule[f].blocks) }
          : f \in 1..Len(llmodule) }

HasNullOperand(inst) == \E o \in 1..Len(inst.operands) : inst.operands[o] = Null

\* The context in which the body of functions[cursor] is lowered.
CurrentContext(trap) ==
  FuncContext(identifierMap, functionMap[module[cursor].proto.name], entryBlock, trap)

InBody == state = "LoweringBodies" /\ step = "body"
AfterBody == state = "LoweringBodies" /\ step = "exit"

----------------------------------------------------------------------------
(* Properties                                                              *)

\* C1: after FuncDef::codegen has run for a function (it returned, or its
\* final verifyFunction ended the process), the Scope is exactly what it was
\* when the function was entered: every name has the stack it had.
ScopeRestoredAfterFunction ==
  ( \/ state = "LoweringBodies" /\ step = "entry" /\ cursor > 1
    \/ state = "Failed" /\ error = "InternalVerificationFailure" /\ step = "exit" )
  => identifierMap = scopeAtEntry

\* C2: while any body is being lowered, every function name the module
\* declares is bound in the Scope.
FunctionsBoundDuringBodies ==
  InBody => \A n \in FunctionNames(module) : Lookup(identifierMap, n) # Null

\* C3: in state Verified every function of the input module has a body, all
\* of its blocks end in a return instruction, and no operand of any
\* instruction is missing.
VerifiedArtifactWellFormed ==
  state = "Verified" =>
    /\ \A k \in 1..Len(module) :
          /\ llmodule[k].blocks # <<>>
          /\ \A b \in 1..Len(llmodule[k].blocks) :
                /\ llmodule[k].blocks[b] # <<>>
                /\ llmodule[k].blocks[b][Len(llmodule[k].blocks[b])].op = "ret"
    /\ \A inst \in AllInstructions : ~HasNullOperand(inst)

\* C4: a module in which some body refers to an unbound name never reaches
\* Verified, and no instruction is ever emitted with a missing operand.
UnboundVarRefFailsFast ==
  /\ state = "Verified" => \A k \in 1..Len(module) : ~HasUnboundVarRef(module, k)
  /\ \A inst \in AllInstructions : ~HasNullOperand(inst)

\* C5: a module in which some body applies an unsupported operator never
\* reaches Verified, and when its lowering fails it fails with a reported
\* error kind (UnsupportedOperator, or the UnknownType or
\* UnresolvedIdentifier found before it), never with a verification failure
\* or a crash.
UnsupportedOperatorFails ==
  (\E k \in 1..Len(module) : HasUnsupportedOperator(module, k)) =>
    /\ state # "Verified"
    /\ state = "Failed" =>
         error \in {"UnsupportedOperator", "UnknownType", "UnresolvedIdentifier"}

\* The transitions of the state machine of module lowering.  None leaves
\* Verified or Failed, and none leads to an earlier state.
Transitions ==
  { <<"Unstarted", "Declaring">>, <<"Declaring", "Declaring">>,
    <<"Declaring", "LoweringBodies">>, <<"Declaring", "Failed">>,
    <<"LoweringBodies", "LoweringBodies">>, <<"LoweringBodies", "Verified">>,
    <<"LoweringBodies", "Failed">> }

\* The number of steps Module::codegen has left at most: one to begin, one
\* per prototype, one between the loops, three per body, one to verify.
StepsLeft ==
  IF state = "Unstarted" THEN 4 * Len(module) + 4
  ELSE IF state = "Declaring" THEN 3 * Len(module) + 2 + (Len(module) + 1 - cursor)
  ELSE IF state = "LoweringBodies"
  THEN 1 + 3 * (Len(module) + 1 - cursor)
         - (IF step = "entry" THEN 0 ELSE IF step = "body" THEN 1 ELSE 2)
  ELSE 0

VisibleParams(argNames) ==
  { a \in 1..Len(argNames) : \A b \in (a + 1)..Len(argNames) : argNames[b] # argNames[a] }

\* C7: while the body of a function is lowered, each parameter name
\* resolves to the argument, at that position, of the function's own
\* prototype, whether or not a function has the same name.
ParamsBoundToOwnArguments ==
  InBody =>
    \A a \in VisibleParams(module[cursor].proto.argNames) :
       LET v == Lookup(identifierMap, module[cursor].proto.argNames[a])
       IN v # Null /\ v.k = "arg" /\ v.fn = cursor /\ v.idx = a

\* What C8 says of one Block lowered after `instrs`: an empty one yields
\* the constant i32 0 and emits nothing; another one is the lowering of its
\* elements but the last, followed by the lowering of the last, whose
\* result is the Block's.
BlockLowersInOrder(e, context, instrs) ==
  LET r == Codegen(e, context, instrs)
      n == Len(e.exprs)
  IN IF n = 0
     THEN r = Lowered([k |-> "const", ty |-> IntegerType(32), val |-> <<0, 0>>], instrs)
     ELSE LET front == Codegen(BlockExpr(SubSeq(e.exprs, 1, n - 1)), context, instrs)
          IN r = IF front.crashed THEN front
                 ELSE Codegen(e.exprs[n], context, front.instrs)

IntSamples ==
  { 0, 1, -1, 2, -2, 65535, 65536, -65535, -65536, -65537,
    2147483647, -2147483647 }

\* The 32-bit value held in the two limbs ap is n mod 2^32: it is n for
\* n >= 0, and n + 2^32 for n < 0.
IsModulo32(ap, n) ==
  /\ Len(ap) = 2
  /\ \A l \in 1..2 : ap[l] \in 0..65535
  /\ IF n >= 0 THEN ap[2] < 32768 /\ ap[2] * 65536 + ap[1] = n
     ELSE ap[2] >= 32768 /\ (ap[2] - 65536) * 65536 + ap[1] = n

\* C9: IntLiteral(n) lowers to the 32-bit constant n mod 2^32, emits no
\* instruction and never fails, whatever the enclosing function declares.
IntLiteralIsConstant32 ==
  /\ InBody =>
       \A n \in IntSamples, trap \in BOOLEAN :
          LET r == Codegen(IntExpr(n), CurrentContext(trap), <<>>)
          IN /\ ~r.crashed
             /\ r.instrs = <<>>
             /\ r.val.k = "const"
             /\ r.val.ty = IntegerType(32)
             /\ IsModulo32(r.val.val, n)
  /\ AfterBody /\ module[cursor].body.node = "Int" =>
       /\ result.k = "const"
       /\ result.ty = IntegerType(32)
       /\ IsModulo32(result.val, module[cursor].body.val)
       /\ llmodule[functionMap[module[cursor].proto.name]].blocks[entryBlock] = <<>>

\* The literal -1 was lowered, to the constant 2^32 - 1.
IntLiteralIsConstant32Witness ==
  /\ AfterBody
  /\ module[cursor].body = IntExpr(-1)
  /\ result = [k |-> "const", ty |-> IntegerType(32), val |-> <<65535, 65535>>]

\* C10: when the lowering of a direct sub-expression yields no value, the
\* lowering of the enclosing expression yields none either (or ends the
\* process), and appends no instruction with a missing operand.
FailurePropagates ==
  InBody =>
    \A e \in SubExprs(module[cursor].body), trap \in BOOLEAN :
       (\E c \in 1..Len(Children(e)) :
           Codegen(Children(e)[c], CurrentContext(trap), <<>>).val = Null)
       => LET r == Codegen(e, CurrentContext(trap), <<>>)
          IN /\ r.val = Null
             /\ \A i \in 1..Len(r.instrs) : ~HasNullOperand(r.instrs[i])

====
